---------------------------- MODULE Spec2Model ----------------------------
(***************************************************************************)
(* A model of the telegram_forwarder package: the message filter, the      *)
(* submission screener, the rate limiter, the channel resolver, the        *)
(* forwarding handler (handlers.py) and the user submission bot (bot.py).  *)
(*                                                                         *)
(* Texts are sequences of one-character strings, so that len(), lower(),   *)
(* strip(), startswith(), replace() and the substring test `in` are        *)
(* computed on characters as Python computes them.  A character outside    *)
(* ASCII is written as the string of its code point ("U+043A").            *)
(*                                                                         *)
(* Time is an integer number of seconds.  asyncio.sleep(d) suspends its    *)
(* caller until the clock has advanced by at least d.                      *)
(***************************************************************************)
EXTENDS Integers, Sequences, FiniteSets, Bags, TLC

VARIABLES
    filters,        \* config.filters : FilterConfig
    arg_message,    \* SpecPure: the message whose text is screened and filtered
    ret_screen,     \* SpecPure: <<what screen_message returned>>, or NoValue
    ret_forward,    \* SpecPure: <<what should_forward returned>>, or NoValue
    pending_submissions,  \* UserSubmissionBot.pending_submissions : user_id -> text
    bot_stats,      \* UserSubmissionBot.stats
    publishes,      \* the confirm callbacks suspended inside post_to_channel (a bag)
    bot_floods,     \* rate-limit signals the bot has received from the network
    bot_posts,      \* the messages the destination channel has received from the bot
    last_event,     \* the event the bot handled last, and its answer to the user
    channels,       \* config.channels : ChannelConfig
    rate_limit,     \* config.rate_limit : RateLimitConfig
    now,            \* the clock datetime.now() reads, in seconds
    message_times,  \* RateLimiter.message_times
    lock,           \* RateLimiter._lock : its holder, or NoTask
    lock_waiters,   \* RateLimiter._lock : the callers waiting for it, first come first
    channel_cache,  \* MessageHandler._channel_cache : identifier -> entity
    stats,          \* MessageHandler.stats
    setup,          \* where setup_handlers stands
    tasks,          \* the handle_new_message call of each message
    entities_made,  \* how many entity objects get_entity has returned
    lookups,        \* the get_entity requests sent, by the identifier resolve_channel was given
    resolved,       \* the identifiers for which a resolve_channel call has returned an entity
    slot_grants,    \* every timestamp wait_if_needed has appended, in order
    attempts        \* every dispatch request sent to the destination: message, time, api

pure_vars == <<arg_message, ret_screen, ret_forward>>

bot_vars ==
    <<pending_submissions, bot_stats, publishes, bot_floods, bot_posts, last_event>>

limiter_vars == <<now, message_times, lock, lock_waiters, slot_grants>>

resolver_vars == <<channel_cache, entities_made, lookups, resolved>>

engine_vars ==
    <<channels, rate_limit, limiter_vars, resolver_vars, stats, setup, tasks, attempts>>

vars == <<filters, pure_vars, bot_vars, engine_vars>>

\* no value yet
NoValue == <<>>

-----------------------------------------------------------------------------
(* Bounds of the model.                                                    *)

\* a text is the concatenation of at most MaxFrags fragments
MaxFrags == 2

\* the bot: submissions handled, rate-limit signals answered by the network
MaxSubmissions == 2
MaxBotFloods == 1

\* the forwarder: messages received, rate-limit signals answered by the
\* network, the last second of the clock, and the step by which the clock
\* moves when no sleep ends sooner
NumMessages == 2
MaxFloods == 1
MaxTime == 120

-----------------------------------------------------------------------------
(* Strings.                                                                *)

UpperChars ==
    <<"A","B","C","D","E","F","G","H","I","J","K","L","M","N","O","P","Q","R","S","T","U","V","W","X","Y","Z">>

LowerChars ==
    <<"a","b","c","d","e","f","g","h","i","j","k","l","m","n","o","p","q","r","s","t","u","v","w","x","y","z">>

\* str.lower() on one character (ASCII letters)
UpperToLower ==
    [c \in {UpperChars[i] : i \in 1..Len(UpperChars)} |->
        LowerChars[CHOOSE i \in 1..Len(UpperChars) : UpperChars[i] = c]]

LowerChar(c) == IF c \in DOMAIN UpperToLower THEN UpperToLower[c] ELSE c

\* str.lower()
Lower(s) == [i \in 1..Len(s) |-> LowerChar(s[i])]

\* the characters str.strip() removes
IsSpace(c) == c \in {" ", "\t", "\n", "\r"}

\* str.strip()
RECURSIVE LStrip(_)
LStrip(s) == IF s # <<>> /\ IsSpace(Head(s)) THEN LStrip(Tail(s)) ELSE s

RECURSIVE RStrip(_)
RStrip(s) ==
    IF s # <<>> /\ IsSpace(s[Len(s)]) THEN RStrip(SubSeq(s, 1, Len(s) - 1)) ELSE s

Strip(s) == RStrip(LStrip(s))

\* s.startswith(p)
StartsWith(s, p) == Len(p) <= Len(s) /\ SubSeq(s, 1, Len(p)) = p

\* `needle in hay` : needle occurs in hay as a contiguous substring
Contains(hay, needle) ==
    \E i \in 0..(Len(hay) - Len(needle)) : SubSeq(hay, i + 1, i + Len(needle)) = needle

\* s.replace(old, "") for a non-empty old: every occurrence, left to right
RECURSIVE RemoveAll(_, _)
RemoveAll(s, old) ==
    IF s = <<>> THEN <<>>
    ELSE IF StartsWith(s, old) THEN RemoveAll(SubSeq(s, Len(old) + 1, Len(s)), old)
    ELSE <<Head(s)>> \o RemoveAll(Tail(s), old)

\* Python truthiness of a str or a list
Truthy(x) == x # <<>>

\* Python truthiness of an int
TruthyInt(n) == n # 0

-----------------------------------------------------------------------------
(* bot.py : SubmissionScreener                                             *)

DEFAULT_REQUIRED_KEYWORDS ==
  << <<"a","p","a","r","t","m","e","n","t">>,
     <<"f","l","a","t">>,
     <<"r","e","n","t">>,
     <<"r","e","n","t","i","n","g">>,
     <<"r","e","n","t","a","l">>,
     <<"r","o","o","m">>,
     <<"s","t","u","d","i","o">>,
     <<"b","e","d","r","o","o","m">>,
     <<"s","u","b","l","e","t">>,
     <<"l","e","a","s","e">>,
     <<"h","o","u","s","i","n","g">>,
     <<"a","c","c","o","m","m","o","d","a","t","i","o","n">>,
     <<"v","u","o","k","r","a">>,
     <<"a","s","u","n","t","o">>,
     <<"1","b","d","r","m">>,
     <<"2","b","d","r","m">>,
     <<"3","b","d","r","m">>,
     <<"U+043A","U+0432","U+0430","U+0440","U+0442","U+0438","U+0440","U+0430">>,
     <<"U+043A","U+043E","U+043C","U+043D","U+0430","U+0442","U+0430">>,
     <<"U+0430","U+0440","U+0435","U+043D","U+0434","U+0430">> >>

\* the patterns hold no regular-expression operator but the escaped dot of
\* bit\.ly, so each one matches exactly its literal text
DEFAULT_BLOCKED_PATTERNS ==
  << <<"b","i","t",".","l","y">>,
     <<"t","i","n","y","u","r","l">>,
     <<"c","l","i","c","k"," ","h","e","r","e">>,
     <<"e","a","r","n"," ","m","o","n","e","y">>,
     <<"m","a","k","e"," ","m","o","n","e","y"," ","f","a","s","t">>,
     <<"c","r","y","p","t","o">>,
     <<"i","n","v","e","s","t","m","e","n","t"," ","o","p","p","o","r","t","u","n","i","t","y">>,
     <<"g","u","a","r","a","n","t","e","e","d"," ","r","e","t","u","r","n","s">> >>

\* SubmissionScreener.__init__ : self.required_keywords
required_keywords(f) ==
    IF Truthy(f.include_keywords) THEN f.include_keywords ELSE DEFAULT_REQUIRED_KEYWORDS

\* SubmissionScreener.__init__ : self.blocked_keywords
blocked_keywords(f) ==
    IF Truthy(f.exclude_keywords) THEN f.exclude_keywords ELSE <<>>

\* re.compile(p, re.IGNORECASE).search(text) for a literal pattern p
PatternSearch(p, text) == Contains(Lower(text), Lower(p))

\* for pattern in self.blocked_patterns: if pattern.search(text): return ...
\* TRUE when the loop returns at or after index i
RECURSIVE BlockedPatternLoop(_, _)
BlockedPatternLoop(text, i) ==
    IF i > Len(DEFAULT_BLOCKED_PATTERNS) THEN FALSE
    ELSE IF PatternSearch(DEFAULT_BLOCKED_PATTERNS[i], text) THEN TRUE
    ELSE BlockedPatternLoop(text, i + 1)

\* for keyword in self.blocked_keywords: if keyword.lower() in text_lower: return ...
RECURSIVE BlockedKeywordLoop(_, _, _)
BlockedKeywordLoop(kws, text_lower, i) ==
    IF i > Len(kws) THEN FALSE
    ELSE IF Contains(text_lower, Lower(kws[i])) THEN TRUE
    ELSE BlockedKeywordLoop(kws, text_lower, i + 1)

\* any(kw.lower() in text_lower for kw in kws)
RECURSIVE AnyKeyword(_, _, _)
AnyKeyword(kws, text_lower, i) ==
    IF i > Len(kws) THEN FALSE
    ELSE IF Contains(text_lower, Lower(kws[i])) THEN TRUE
    ELSE AnyKeyword(kws, text_lower, i + 1)

\* the dict screen_message returns; `message` is the user-facing text, named
\* by its first words, with the number formatted into it
Result(approved, reason, message) ==
    [approved |-> approved, reason |-> reason, message |-> message]

\* self.filters.min_message_length or 20
min_length(f) == IF TruthyInt(f.min_message_length) THEN f.min_message_length ELSE 20

\* a plausible slip: the length check placed before the spam and keyword checks
screen_message_LengthFirst(f, text) ==
    IF ~Truthy(text) \/ ~Truthy(Strip(text))
    THEN Result(FALSE, "empty_message", <<"Your message is empty">>)
    ELSE IF Len(text) < min_length(f)
    THEN Result(FALSE, "too_short", <<"Your message is too short", min_length(f)>>)
    ELSE IF BlockedPatternLoop(text, 1)
    THEN Result(FALSE, "spam_detected", <<"Your message contains suspicious content">>)
    ELSE IF BlockedKeywordLoop(blocked_keywords(f), Lower(text), 1)
    THEN Result(FALSE, "blocked_keyword", <<"Your message contains blocked content">>)
    ELSE IF ~AnyKeyword(required_keywords(f), Lower(text), 1)
    THEN Result(FALSE, "off_topic", <<"Your message doesn't appear to be about rentals">>)
    ELSE Result(TRUE, "approved", <<"Your message has been approved">>)

\* a plausible slip: the topic check placed before the length check
screen_message_TopicFirst(f, text) ==
    IF ~Truthy(text) \/ ~Truthy(Strip(text))
    THEN Result(FALSE, "empty_message", <<"Your message is empty">>)
    ELSE IF BlockedPatternLoop(text, 1)
    THEN Result(FALSE, "spam_detected", <<"Your message contains suspicious content">>)
    ELSE IF BlockedKeywordLoop(blocked_keywords(f), Lower(text), 1)
    THEN Result(FALSE, "blocked_keyword", <<"Your message contains blocked content">>)
    ELSE IF ~AnyKeyword(required_keywords(f), Lower(text), 1)
    THEN Result(FALSE, "off_topic", <<"Your message doesn't appear to be about rentals">>)
    ELSE IF Len(text) < min_length(f)
    THEN Result(FALSE, "too_short", <<"Your message is too short", min_length(f)>>)
    ELSE Result(TRUE, "approved", <<"Your message has been approved">>)

\* SubmissionScreener.screen_message
screen_message(f, text) ==
    IF ~Truthy(text) \/ ~Truthy(Strip(text))
    THEN Result(FALSE, "empty_message", <<"Your message is empty">>)
    ELSE IF BlockedPatternLoop(text, 1)
    THEN Result(FALSE, "spam_detected", <<"Your message contains suspicious content">>)
    ELSE IF BlockedKeywordLoop(blocked_keywords(f), Lower(text), 1)
    THEN Result(FALSE, "blocked_keyword", <<"Your message contains blocked content">>)
    ELSE IF Len(text) < min_length(f)
    THEN Result(FALSE, "too_short", <<"Your message is too short", min_length(f)>>)
    ELSE IF ~AnyKeyword(required_keywords(f), Lower(text), 1)
    THEN Result(FALSE, "off_topic", <<"Your message doesn't appear to be about rentals">>)
    ELSE Result(TRUE, "approved", <<"Your message has been approved">>)

-----------------------------------------------------------------------------
(* handlers.py : MessageFilter                                             *)

\* message.text or message.caption or ""
MessageText(message) ==
    IF Truthy(message.text) THEN message.text
    ELSE IF Truthy(message.caption) THEN message.caption
    ELSE <<>>

\* a plausible slip: a matching include keyword accepts the message at once
should_forward_IncludeWins(f, message) ==
    LET text == MessageText(message) IN
    IF ~Truthy(text) /\ message.media THEN f.include_media_only
    ELSE IF Len(text) < f.min_message_length THEN FALSE
    ELSE IF Truthy(f.include_keywords)
    THEN AnyKeyword(f.include_keywords, Lower(text), 1)
    ELSE IF Truthy(f.exclude_keywords) /\ AnyKeyword(f.exclude_keywords, Lower(text), 1)
    THEN FALSE
    ELSE TRUE

\* MessageFilter.should_forward
should_forward(f, message) ==
    LET text == MessageText(message) IN
    IF ~Truthy(text) /\ message.media THEN f.include_media_only
    ELSE IF Len(text) < f.min_message_length THEN FALSE
    ELSE IF Truthy(f.include_keywords) /\ ~AnyKeyword(f.include_keywords, Lower(text), 1)
    THEN FALSE
    ELSE IF Truthy(f.exclude_keywords) /\ AnyKeyword(f.exclude_keywords, Lower(text), 1)
    THEN FALSE
    ELSE TRUE

-----------------------------------------------------------------------------
(* Inputs: texts, messages and filter configurations.                      *)

FragRent  == <<"R","e","n","t">>
FragFlat  == <<"f","l","a","t">>
FragSpam  == <<"C","r","y","p","t","o">>
FragScam  == <<"S","C","A","M">>
FragFill  == <<"x","x","x","x","x","x","x","x","x","x","x","x","x","x","x","x","x","x">>
FragSpace == <<" ">>

Frags == {FragRent, FragFlat, FragSpam, FragScam, FragFill, FragSpace}

RECURSIVE TextsUpTo(_)
TextsUpTo(n) ==
    IF n = 0 THEN {<<>>}
    ELSE LET shorter == TextsUpTo(n - 1) IN
         shorter \cup {t \o g : t \in shorter, g \in Frags}

Texts == TextsUpTo(MaxFrags)

\* FilterConfig values: the defaults of config.py and values set from the
\* environment
FilterConfigs ==
    [include_keywords   : {<<>>, <<FragFlat>>},
     exclude_keywords   : {<<>>, <<<<"s","c","a","m">>>>},
     include_media_only : BOOLEAN,
     min_message_length : {0, 5, 30}]

\* a message of the network: its text, its caption, whether it carries media
Messages == [text : Texts, caption : {<<>>, FragRent}, media : BOOLEAN]

-----------------------------------------------------------------------------
(* bot.py : UserSubmissionBot                                              *)

\* event.sender_id of the submitters
Users == {1, 2}

\* the texts submitters send: two listings and a short text
TextA == FragFill \o FragRent
TextB == FragFill \o FragFlat
BotTexts == {TextA, TextB, FragRent}

\* the suggested waits a rate-limit signal (FloodWaitError.seconds) carries
FloodSeconds == {10}

\* how a request to the network ends
Outcomes ==
    {[kind |-> "ok", seconds |-> 0],
     [kind |-> "forbidden", seconds |-> 0],
     [kind |-> "other", seconds |-> 0]}
    \cup [kind : {"flood"}, seconds : FloodSeconds]

\* a plausible slip: pending_submissions.clear() in place of pop(user_id, None)
Pop_ClearsAll(pending, user_id) == <<>>

\* self.pending_submissions.pop(user_id) / .pop(user_id, None)
Pop(pending, user_id) == [u \in DOMAIN pending \ {user_id} |-> pending[u]]

\* a plausible slip: pending_submissions.setdefault(user_id, message_text)
Store_KeepsFirst(pending, user_id, text) ==
    IF user_id \in DOMAIN pending THEN pending
    ELSE [u \in DOMAIN pending \cup {user_id} |-> IF u = user_id THEN text ELSE pending[u]]

\* self.pending_submissions[user_id] = message_text
Store(pending, user_id, text) ==
    [u \in DOMAIN pending \cup {user_id} |-> IF u = user_id THEN text ELSE pending[u]]

\* formatted_message of post_to_channel
PostHeader == <<"U+1F3E0"," ","*","*","N","e","w"," ","L","i","s","t","i","n","g","*","*","\n","\n">>
PostFooter == <<"\n","\n","U+2501","\n","U+1F4EE"," ","_","S","u","b","m","i","t","t","e","d"," ","v","i","a"," ","b","o","t","_">>
FormatPost(message_text) == PostHeader \o message_text \o PostFooter

\* a confirm callback suspended inside post_to_channel: where it waits, its
\* arguments, and the sleep it asked for
Publish(pc, user_id, message_text, sleep) ==
    [pc |-> pc, user_id |-> user_id, message_text |-> message_text, sleep |-> sleep]

\* the callback p goes on as q / starts as q / ends
Moved(bag, p, q) == (bag (-) SetToBag({p})) (+) SetToBag({q})
Started(bag, q) == bag (+) SetToBag({q})
Ended(bag, p) == bag (-) SetToBag({p})

\* an event handled by the bot: its kind, event.sender_id, the text it came
\* with or took from pending_submissions, and the answer sent to the user;
\* `tick` alternates, so that two equal events in a row are told apart
Event(kind, user_id, text, answer) ==
    [event |-> kind, user_id |-> user_id, text |-> text, answer |-> answer,
     tick |-> 1 - last_event.tick]

InitBotVars ==
    /\ pending_submissions = <<>>
    /\ bot_stats = [submissions_received |-> 0, submissions_approved |-> 0,
                    submissions_rejected |-> 0]
    /\ publishes = EmptyBag
    /\ bot_floods = 0
    /\ bot_posts = <<>>
    /\ last_event = [event |-> "none", user_id |-> 0, text |-> <<>>, answer |-> <<>>,
                     tick |-> 0]

\* a plausible slip: the text stored before it is screened
process_submission_StoresFirst(user_id, message_text) ==
    LET result == screen_message(filters, message_text) IN
    /\ bot_stats.submissions_received < MaxSubmissions
    /\ pending_submissions' = Store(pending_submissions, user_id, message_text)
    /\ IF result.approved
       THEN /\ bot_stats' = [bot_stats EXCEPT !.submissions_received = @ + 1]
            /\ last_event' = Event("new_message", user_id, message_text,
                                   <<"Preview of your listing">>)
       ELSE /\ bot_stats' = [bot_stats EXCEPT !.submissions_received = @ + 1,
                                              !.submissions_rejected = @ + 1]
            /\ last_event' = Event("new_message", user_id, message_text, result.message)
    /\ UNCHANGED <<filters, pure_vars, engine_vars, publishes, bot_floods, bot_posts>>

\* a plausible slip: submissions_received counted in the approved branch only
process_submission_CountsAccepted(user_id, message_text) ==
    LET result == screen_message(filters, message_text) IN
    /\ bot_stats.submissions_received < MaxSubmissions
    /\ bot_stats.submissions_rejected < MaxSubmissions
    /\ IF result.approved
       THEN /\ pending_submissions' = Store(pending_submissions, user_id, message_text)
            /\ bot_stats' = [bot_stats EXCEPT !.submissions_received = @ + 1]
            /\ last_event' = Event("new_message", user_id, message_text,
                                   <<"Preview of your listing">>)
       ELSE /\ pending_submissions' = pending_submissions
            /\ bot_stats' = [bot_stats EXCEPT !.submissions_rejected = @ + 1]
            /\ last_event' = Event("new_message", user_id, message_text, result.message)
    /\ UNCHANGED <<filters, pure_vars, engine_vars, publishes, bot_floods, bot_posts>>

\* process_submission: count, screen, then store and preview, or reject
process_submission(user_id, message_text) ==
    LET result == screen_message(filters, message_text) IN
    /\ bot_stats.submissions_received < MaxSubmissions
    /\ IF result.approved
       THEN /\ pending_submissions' = Store(pending_submissions, user_id, message_text)
            /\ bot_stats' = [bot_stats EXCEPT !.submissions_received = @ + 1]
            /\ last_event' = Event("new_message", user_id, message_text,
                                   <<"Preview of your listing">>)
       ELSE /\ pending_submissions' = pending_submissions
            /\ bot_stats' = [bot_stats EXCEPT !.submissions_received = @ + 1,
                                              !.submissions_rejected = @ + 1]
            /\ last_event' = Event("new_message", user_id, message_text, result.message)
    /\ UNCHANGED <<filters, pure_vars, engine_vars, publishes, bot_floods, bot_posts>>

\* handle_submission: a private message that is no command
handle_submission ==
    \E user_id \in Users, message_text \in BotTexts :
        /\ ~StartsWith(message_text, <<"/">>)
        /\ process_submission(user_id, message_text)

\* a plausible slip: the stale confirmation counted as a rejected submission
confirm_post_nothing_pending_Counted(user_id) ==
    /\ user_id \notin DOMAIN pending_submissions
    /\ bot_stats.submissions_rejected < MaxSubmissions
    /\ bot_stats' = [bot_stats EXCEPT !.submissions_rejected = @ + 1]
    /\ last_event' = Event("confirm_post", user_id, <<>>,
                           <<"No pending submission found">>)
    /\ UNCHANGED <<filters, pure_vars, engine_vars, pending_submissions, publishes,
                   bot_floods, bot_posts>>

\* handle_button_callback, data == "confirm_post", nothing pending
confirm_post_nothing_pending(user_id) ==
    /\ user_id \notin DOMAIN pending_submissions
    /\ last_event' = Event("confirm_post", user_id, <<>>,
                           <<"No pending submission found">>)
    /\ UNCHANGED <<filters, pure_vars, engine_vars, pending_submissions, bot_stats, publishes,
                   bot_floods, bot_posts>>

\* a plausible slip: the entry read with [user_id] in place of pop(user_id)
PendingAfterConfirm_Kept(pending, user_id) == pending

\* what confirm_post leaves of pending_submissions before post_to_channel runs
PendingAfterConfirm(pending, user_id) == Pop(pending, user_id)

\* handle_button_callback, data == "confirm_post", up to the first request of
\* post_to_channel: the entry is popped and get_entity is awaited
confirm_post_start(user_id) ==
    /\ user_id \in DOMAIN pending_submissions
    /\ pending_submissions' = PendingAfterConfirm(pending_submissions, user_id)
    /\ publishes' = Started(publishes,
                        Publish("get_entity", user_id, pending_submissions[user_id], 0))
    /\ last_event' = Event("confirm_post", user_id, pending_submissions[user_id], <<>>)
    /\ UNCHANGED <<filters, pure_vars, engine_vars, bot_stats, bot_floods, bot_posts>>

\* a plausible slip: the counter incremented outside the `if success:` branch
ApprovedAfterPost_Always(counters, success) ==
    [counters EXCEPT !.submissions_approved = @ + 1]

\* post_to_channel returned `success` to the confirm callback
ApprovedAfterPost(counters, success) ==
    IF success THEN [counters EXCEPT !.submissions_approved = @ + 1] ELSE counters

\* handle_button_callback, data == "confirm_post", after post_to_channel
confirm_post_finish(p, success) ==
    /\ bot_stats' = ApprovedAfterPost(bot_stats, success)
    /\ last_event' =
           Event("confirm_post", p.user_id, p.message_text,
                 IF success THEN <<"Your listing has been posted to the channel!">>
                 ELSE <<"Failed to post to the channel.">>)
    /\ publishes' = Ended(publishes, p)

\* an exception raised inside the try block of post_to_channel
post_to_channel_except(p, outcome) ==
    IF outcome.kind = "flood"
    THEN \* await asyncio.sleep(e.seconds)
         /\ bot_floods < MaxBotFloods
         /\ publishes' = Moved(publishes, p,
                               Publish("flood_sleep", p.user_id, p.message_text,
                                       outcome.seconds))
         /\ bot_floods' = bot_floods + 1
         /\ UNCHANGED <<bot_stats, last_event>>
    ELSE \* ChatWriteForbiddenError, Exception: return False
         /\ confirm_post_finish(p, FALSE)
         /\ UNCHANGED bot_floods

\* post_to_channel: get_entity(dest_channel) returns or raises
get_entity_returns(p, outcome) ==
    /\ p.pc = "get_entity"
    /\ IF outcome.kind = "ok"
       THEN /\ publishes' = Moved(publishes, p,
                                  Publish("send_message", p.user_id, p.message_text, 0))
            /\ UNCHANGED <<bot_stats, bot_floods, last_event>>
       ELSE post_to_channel_except(p, outcome)
    /\ UNCHANGED <<filters, pure_vars, engine_vars, pending_submissions, bot_posts>>

\* post_to_channel: send_message(entity, formatted_message) returns or raises
send_message_returns(p, outcome) ==
    /\ p.pc = "send_message"
    /\ IF outcome.kind = "ok"
       THEN /\ bot_posts' = Append(bot_posts, FormatPost(p.message_text))
            /\ confirm_post_finish(p, TRUE)
            /\ UNCHANGED bot_floods
       ELSE /\ post_to_channel_except(p, outcome)
            /\ UNCHANGED bot_posts
    /\ UNCHANGED <<filters, pure_vars, engine_vars, pending_submissions>>

\* post_to_channel: the sleep after a rate-limit signal ends and
\* post_to_channel calls itself
post_flood_sleep_ends(p) ==
    /\ p.pc = "flood_sleep"
    /\ publishes' = Moved(publishes, p,
                          Publish("get_entity", p.user_id, p.message_text, 0))
    /\ UNCHANGED <<filters, pure_vars, engine_vars, pending_submissions, bot_stats, bot_floods,
                   bot_posts, last_event>>

\* handle_button_callback, data == "cancel_post"
cancel_post(user_id) ==
    /\ pending_submissions' = Pop(pending_submissions, user_id)
    /\ last_event' = Event("cancel_post", user_id,
                           IF user_id \in DOMAIN pending_submissions
                           THEN pending_submissions[user_id] ELSE <<>>,
                           <<"Submission cancelled.">>)
    /\ UNCHANGED <<filters, pure_vars, engine_vars, bot_stats, publishes, bot_floods, bot_posts>>

\* handle_button_callback, data == "edit_post"
edit_post(user_id) ==
    /\ pending_submissions' = Pop(pending_submissions, user_id)
    /\ last_event' = Event("edit_post", user_id,
                           IF user_id \in DOMAIN pending_submissions
                           THEN pending_submissions[user_id] ELSE <<>>,
                           <<"Please send your edited listing message.">>)
    /\ UNCHANGED <<filters, pure_vars, engine_vars, bot_stats, publishes, bot_floods, bot_posts>>

\* handle_callback: a button press
handle_button_callback ==
    \E user_id \in Users :
        \/ confirm_post_nothing_pending(user_id)
        \/ confirm_post_start(user_id)
        \/ cancel_post(user_id)
        \/ edit_post(user_id)

\* the network answers a request of post_to_channel, or a sleep ends
post_to_channel ==
    \E p \in BagToSet(publishes) :
        \/ \E outcome \in Outcomes : get_entity_returns(p, outcome)
        \/ \E outcome \in Outcomes : send_message_returns(p, outcome)
        \/ post_flood_sleep_ends(p)

-----------------------------------------------------------------------------
(* handlers.py : RateLimiter, MessageHandler                               *)

\* timedelta(minutes=1), in seconds
WindowSeconds == 60

\* the prefix resolve_channel strips from a link
TMePrefix == <<"h","t","t","p","s",":","/","/","t",".","m","e","/">>

SrcPlain == <<"@","s","r","c">>
DstPlain == <<"@","d","s","t">>
DstLink  == TMePrefix \o <<"d","s","t">>

\* ChannelConfig values: copy mode to either destination, forward mode to
\* the plain one
ChannelConfigs ==
    {c \in [source_channels : {<<SrcPlain>>},
            destination_channel : {DstPlain, DstLink},
            forward_mode : BOOLEAN] :
        c.forward_mode => c.destination_channel = DstPlain}

\* RateLimitConfig values; flood_wait_multiplier 1.5 is the fraction 3/2
RateLimitConfigs ==
    [message_delay : {WindowSeconds \div 2},
     flood_wait_multiplier : {<<3, 2>>},
     max_messages_per_minute : {1, 2}]

\* FilterConfig() with the defaults of its fields
DefaultFilterConfig ==
    [include_keywords |-> <<>>, exclude_keywords |-> <<>>,
     include_media_only |-> TRUE, min_message_length |-> 0]

\* FilterConfig the forwarder runs under: MIN_MESSAGE_LENGTH=5
EngineFilterConfig == [DefaultFilterConfig EXCEPT !.min_message_length = 5]

\* the messages the source channels deliver: a text, a text too short for the
\* filter, a photo without caption
EngineMessages ==
    {[text |-> TextA, caption |-> <<>>, media |-> FALSE],
     [text |-> FragRent, caption |-> <<>>, media |-> FALSE],
     [text |-> <<>>, caption |-> <<>>, media |-> TRUE]}

\* the outcomes of a request of the forwarder; a rate-limit signal asks for
\* 10 seconds
EngineOutcomes ==
    {[kind |-> "ok", seconds |-> 0], [kind |-> "forbidden", seconds |-> 0],
     [kind |-> "other", seconds |-> 0], [kind |-> "flood", seconds |-> 10]}

Msgs == 1..NumMessages

NoTask == 0

NoMessage == [text |-> <<>>, caption |-> <<>>, media |-> FALSE]

\* a handle_new_message call: where it is suspended, the time its sleep
\* ends, its message, the rate-limit signals it has received, the seconds of
\* the last one, what forward_message returned
Task(pc, wake, message, floods) ==
    [pc |-> pc, wake |-> wake, message |-> message, floods |-> floods, seconds |-> 0,
     ret |-> "none"]

At(m, pc) == tasks[m].pc = pc

Goto(m, pc, wake) == [tasks EXCEPT ![m].pc = pc, ![m].wake = wake]

RECURSIVE SumFloods(_)
SumFloods(m) == IF m = 0 THEN 0 ELSE tasks[m].floods + SumFloods(m - 1)

InitEngineVars ==
    /\ channels = [source_channels |-> <<SrcPlain>>, destination_channel |-> DstPlain,
                   forward_mode |-> FALSE]
    /\ rate_limit = [message_delay |-> 1, flood_wait_multiplier |-> <<3, 2>>,
                     max_messages_per_minute |-> 20]
    /\ now = 0
    /\ message_times = <<>>
    /\ lock = NoTask
    /\ lock_waiters = <<>>
    /\ channel_cache = <<>>
    /\ stats = [messages_received |-> 0, messages_forwarded |-> 0,
                messages_filtered |-> 0, errors |-> 0]
    /\ setup = [pc |-> "start", i |-> 1, found |-> 0]
    /\ tasks = [m \in Msgs |-> Task("idle", 0, NoMessage, 0)]
    /\ entities_made = 0
    /\ lookups = <<>>
    /\ resolved = {}
    /\ slot_grants = <<>>
    /\ attempts = <<>>

(* ---- resolve_channel ---- *)

\* the name resolve_channel asks the network for, and caches the entity under
LookupName(channel_id) ==
    IF StartsWith(channel_id, TMePrefix) THEN RemoveAll(channel_id, TMePrefix)
    ELSE channel_id

\* the object a get_entity request returns: a new one each time
NewEntity(name) == [title |-> name, obj |-> entities_made + 1]

\* self._channel_cache[channel_id] = entity
CacheStore(cache, key, entity) ==
    [k \in DOMAIN cache \cup {key} |-> IF k = key THEN entity ELSE cache[k]]

\* one more get_entity request sent on behalf of resolve_channel(channel_id)
CountLookup(channel_id) ==
    [k \in DOMAIN lookups \cup {channel_id} |->
        IF k = channel_id
        THEN (IF k \in DOMAIN lookups THEN lookups[k] ELSE 0) + 1
        ELSE lookups[k]]

\* resolve_channel(channel_id) answers from the cache
CacheHit(channel_id) == channel_id \in DOMAIN channel_cache

\* a plausible slip: the failure remembered in the cache
resolve_channel_raises_Cached(channel_id) ==
    /\ channel_cache' = CacheStore(channel_cache, LookupName(channel_id),
                                   [title |-> <<>>, obj |-> 0])
    /\ UNCHANGED <<entities_made, lookups, resolved>>

\* get_entity raised inside resolve_channel(channel_id): logged and raised
\* again
resolve_channel_raises(channel_id) ==
    UNCHANGED <<channel_cache, entities_made, lookups, resolved>>

\* get_entity returned for resolve_channel(channel_id)
resolve_channel_returns(channel_id) ==
    /\ channel_cache' = CacheStore(channel_cache, LookupName(channel_id),
                                   NewEntity(LookupName(channel_id)))
    /\ entities_made' = entities_made + 1
    /\ resolved' = resolved \cup {channel_id}
    /\ UNCHANGED lookups

(* ---- RateLimiter.wait_if_needed ---- *)

\* a plausible slip: the comparison of the filter reversed
Prune_Reversed(times, cutoff) == SelectSeq(times, LAMBDA t : t < cutoff)

\* [t for t in self.message_times if t > cutoff]
Prune(times, cutoff) == SelectSeq(times, LAMBDA t : t > cutoff)

\* a plausible slip: `>` in place of `>=`
Full_OffByOne(times, max) == Len(times) > max

\* len(self.message_times) >= self.rate_config.max_messages_per_minute
Full(times, max) == Len(times) >= max

\* (self.message_times[0] - cutoff).total_seconds()
WaitTime(times, cutoff) == times[1] - cutoff

\* a plausible slip: the standard delay left out
StandardDelay_Skipped(config) == 0

\* await asyncio.sleep(self.rate_config.message_delay)
StandardDelay(config) == config.message_delay

\* wait_if_needed from taking the lock to its first sleep
enter_lock(m) ==
    LET cutoff == now - WindowSeconds
        pruned == Prune(message_times, cutoff)
    IN /\ lock' = m
       /\ message_times' = pruned
       /\ tasks' = IF Full(pruned, rate_limit.max_messages_per_minute)
                      /\ WaitTime(pruned, cutoff) > 0
                   THEN Goto(m, "sleep_window", now + WaitTime(pruned, cutoff))
                   ELSE Goto(m, "sleep_delay", now + StandardDelay(rate_limit))

(* ---- MessageHandler.forward_message ---- *)

\* the request forward_message sends for a message
DispatchApi(message) ==
    IF channels.forward_mode THEN "forward_messages"
    ELSE IF message.media THEN "send_file"
    ELSE "send_message"

Attempt(m) == [msg |-> m, time |-> now, api |-> DispatchApi(tasks[m].message)]

\* forward_message up to its first request: the destination comes from the
\* cache and the dispatch is sent, or get_entity is awaited
forward_message_start(m, floods) ==
    LET dest == channels.destination_channel IN
    IF CacheHit(dest)
    THEN /\ tasks' = [tasks EXCEPT ![m].pc = "dispatch", ![m].floods = floods]
         /\ attempts' = Append(attempts, Attempt(m))
         /\ resolved' = resolved \cup {dest}
         /\ UNCHANGED <<channel_cache, entities_made, lookups>>
    ELSE /\ tasks' = [tasks EXCEPT ![m].pc = "get_entity", ![m].floods = floods]
         /\ lookups' = CountLookup(dest)
         /\ UNCHANGED <<channel_cache, entities_made, resolved, attempts>>

\* a plausible slip: the server's wait taken without the multiplier
FloodWaitTime_Unscaled(seconds) == seconds

\* RateLimiter.handle_flood_wait: error.seconds * flood_wait_multiplier
FloodWaitTime(seconds) ==
    (seconds * rate_limit.flood_wait_multiplier[1]) \div rate_limit.flood_wait_multiplier[2]

\* a plausible slip: the counter incremented whatever forward_message returned
ForwardedAfter_Always(counters, success) ==
    [counters EXCEPT !.messages_forwarded = @ + 1]

\* handle_new_message: if await self.forward_message(message): forwarded += 1
ForwardedAfter(counters, success) ==
    IF success THEN [counters EXCEPT !.messages_forwarded = @ + 1] ELSE counters

\* a plausible slip: the permission error returns False without counting
forward_message_except_Uncounted(m, outcome) ==
    IF outcome.kind = "flood"
    THEN /\ SumFloods(NumMessages) < MaxFloods
         /\ now + FloodWaitTime(outcome.seconds) <= MaxTime
         /\ tasks' = [tasks EXCEPT ![m].pc = "flood_sleep",
                                   ![m].wake = now + FloodWaitTime(outcome.seconds),
                                   ![m].floods = @ + 1,
                                   ![m].seconds = outcome.seconds]
         /\ UNCHANGED stats
    ELSE /\ tasks' = [tasks EXCEPT ![m].pc = "done", ![m].wake = 0, ![m].ret = "False"]
         /\ stats' = ForwardedAfter(IF outcome.kind = "forbidden" THEN stats
                                    ELSE [stats EXCEPT !.errors = @ + 1], FALSE)

\* forward_message: an exception raised inside its try block
forward_message_except(m, outcome) ==
    IF outcome.kind = "flood"
    THEN \* except FloodWaitError: await self.rate_limiter.handle_flood_wait(e)
         /\ SumFloods(NumMessages) < MaxFloods
         /\ now + FloodWaitTime(outcome.seconds) <= MaxTime
         /\ tasks' = [tasks EXCEPT ![m].pc = "flood_sleep",
                                   ![m].wake = now + FloodWaitTime(outcome.seconds),
                                   ![m].floods = @ + 1,
                                   ![m].seconds = outcome.seconds]
         /\ UNCHANGED stats
    ELSE \* except ChatWriteForbiddenError / except Exception
         /\ tasks' = [tasks EXCEPT ![m].pc = "done", ![m].wake = 0, ![m].ret = "False"]
         /\ stats' = ForwardedAfter([stats EXCEPT !.errors = @ + 1], FALSE)

(* ---- MessageHandler.handle_new_message ---- *)

\* the handler is registered: setup_handlers has passed its loop
Registered == setup.pc \in {"dest", "running"}

\* a message arrives: handle_new_message up to `await event.get_chat()`
new_message(m) ==
    /\ Registered
    /\ At(m, "idle")
    /\ m > 1 => ~At(m - 1, "idle")
    /\ \E message \in EngineMessages :
           tasks' = [tasks EXCEPT ![m] = Task("get_chat", 0, message, 0)]
    /\ stats' = [stats EXCEPT !.messages_received = @ + 1]
    /\ UNCHANGED <<filters, pure_vars, bot_vars, channels, rate_limit, limiter_vars,
                   resolver_vars, setup, attempts>>

\* handle_new_message: `await event.get_chat()` raises, or returns None and
\* `chat.id` raises; the exception leaves the handler
get_chat_raises(m) ==
    /\ Registered
    /\ At(m, "get_chat")
    /\ tasks' = Goto(m, "raised", 0)
    /\ UNCHANGED <<filters, pure_vars, bot_vars, channels, rate_limit, limiter_vars,
                   resolver_vars, stats, setup, attempts>>

\* a plausible slip: the window handled without taking the lock
LockFree_Always == TRUE

\* async with self._lock: the lock is taken at once when it is not held and
\* nobody waits for it
LockFree == lock = NoTask /\ lock_waiters = <<>>

\* a plausible slip: the result of the filter not looked at
FilteredOut_Never(f, message) == FALSE

\* if not self.message_filter.should_forward(message)
FilteredOut(f, message) == ~should_forward(f, message)

\* handle_new_message from the filter to the lock of wait_if_needed
apply_filters(m) ==
    /\ Registered
    /\ At(m, "get_chat")
    /\ IF FilteredOut(filters, tasks[m].message)
       THEN /\ stats' = [stats EXCEPT !.messages_filtered = @ + 1]
            /\ tasks' = Goto(m, "done", 0)
            /\ UNCHANGED <<message_times, lock, lock_waiters>>
       ELSE IF LockFree
       THEN /\ enter_lock(m)
            /\ UNCHANGED <<stats, lock_waiters>>
       ELSE /\ lock_waiters' = Append(lock_waiters, m)
            /\ tasks' = Goto(m, "lock_wait", 0)
            /\ UNCHANGED <<stats, message_times, lock>>
    /\ UNCHANGED <<filters, pure_vars, bot_vars, channels, rate_limit, now, slot_grants,
                   resolver_vars, setup, attempts>>

\* the lock is released to its first waiter
lock_acquired(m) ==
    /\ Registered
    /\ At(m, "lock_wait")
    /\ lock = NoTask
    /\ lock_waiters # <<>> /\ Head(lock_waiters) = m
    /\ lock_waiters' = Tail(lock_waiters)
    /\ enter_lock(m)
    /\ UNCHANGED <<filters, pure_vars, bot_vars, channels, rate_limit, now, slot_grants,
                   resolver_vars, stats, setup, attempts>>

\* wait_if_needed: the sleep for the window ends, the standard delay starts
window_sleep_ends(m) ==
    /\ Registered
    /\ At(m, "sleep_window")
    /\ now >= tasks[m].wake
    /\ tasks' = Goto(m, "sleep_delay", now + StandardDelay(rate_limit))
    /\ UNCHANGED <<filters, pure_vars, bot_vars, channels, rate_limit, limiter_vars,
                   resolver_vars, stats, setup, attempts>>

\* a plausible slip: the lock taken with acquire() and never released
LockAfterBlock_Held(holder) == holder

\* the lock when its holder leaves the `async with` block
LockAfterBlock(holder) == NoTask

\* wait_if_needed: the standard delay ends, the message is recorded, the lock
\* is released; handle_new_message goes on into forward_message
delay_sleep_ends(m) ==
    /\ Registered
    /\ At(m, "sleep_delay")
    /\ now >= tasks[m].wake
    /\ message_times' = Append(message_times, now)
    /\ slot_grants' = Append(slot_grants, [msg |-> m, time |-> now])
    /\ lock' = LockAfterBlock(m)
    /\ forward_message_start(m, tasks[m].floods)
    /\ UNCHANGED <<filters, pure_vars, bot_vars, channels, rate_limit, now, lock_waiters,
                   stats, setup>>

\* forward_message: get_entity returns or raises inside resolve_channel
get_entity_done(m, outcome) ==
    /\ Registered
    /\ At(m, "get_entity")
    /\ IF outcome.kind = "ok"
       THEN /\ resolve_channel_returns(channels.destination_channel)
            /\ tasks' = Goto(m, "dispatch", 0)
            /\ attempts' = Append(attempts, Attempt(m))
            /\ UNCHANGED stats
       ELSE /\ resolve_channel_raises(channels.destination_channel)
            /\ forward_message_except(m, outcome)
            /\ UNCHANGED attempts
    /\ UNCHANGED <<filters, pure_vars, bot_vars, channels, rate_limit, limiter_vars, setup>>

\* forward_message: the dispatch request returns or raises;
\* handle_new_message counts a forwarded message
dispatch_done(m, outcome) ==
    /\ Registered
    /\ At(m, "dispatch")
    /\ IF outcome.kind = "ok"
       THEN /\ tasks' = [tasks EXCEPT ![m].pc = "done", ![m].wake = 0, ![m].ret = "True"]
            /\ stats' = ForwardedAfter(stats, TRUE)
       ELSE forward_message_except(m, outcome)
    /\ UNCHANGED <<filters, pure_vars, bot_vars, channels, rate_limit, limiter_vars,
                   resolver_vars, setup, attempts>>

\* a plausible slip: the retry started without awaiting the penalty sleep
flood_sleep_ends_Early(m) ==
    /\ Registered
    /\ At(m, "flood_sleep")
    /\ forward_message_start(m, tasks[m].floods)
    /\ UNCHANGED <<filters, pure_vars, bot_vars, channels, rate_limit, limiter_vars,
                   stats, setup>>

\* handle_flood_wait returns: forward_message calls itself
flood_sleep_ends(m) ==
    /\ Registered
    /\ At(m, "flood_sleep")
    /\ now >= tasks[m].wake
    /\ forward_message_start(m, tasks[m].floods)
    /\ UNCHANGED <<filters, pure_vars, bot_vars, channels, rate_limit, limiter_vars,
                   stats, setup>>

handle_new_message ==
    \E m \in Msgs :
        \/ new_message(m)
        \/ get_chat_raises(m)
        \/ apply_filters(m)
        \/ lock_acquired(m)
        \/ window_sleep_ends(m)
        \/ delay_sleep_ends(m)

forward_message ==
    \E m \in Msgs :
        \/ \E outcome \in EngineOutcomes : get_entity_done(m, outcome)
        \/ \E outcome \in EngineOutcomes : dispatch_done(m, outcome)
        \/ flood_sleep_ends(m)

(* ---- MessageHandler.setup_handlers ---- *)

\* setup_handlers after its loop over the source channels: without an entity
\* it raises; else the handler is registered and the destination is resolved
setup_after_sources(found) ==
    LET dest == channels.destination_channel IN
    IF found = 0
    THEN /\ setup' = [pc |-> "failed", i |-> 0, found |-> 0]
         /\ UNCHANGED <<lookups, resolved>>
    ELSE IF CacheHit(dest)
    THEN /\ setup' = [pc |-> "running", i |-> 0, found |-> found]
         /\ resolved' = resolved \cup {dest}
         /\ UNCHANGED lookups
    ELSE /\ setup' = [pc |-> "dest", i |-> 0, found |-> found]
         /\ lookups' = CountLookup(dest)
         /\ UNCHANGED resolved

\* setup_handlers starts: resolve_channel of the first source channel awaits
\* get_entity (the cache is empty)
setup_start ==
    /\ setup.pc = "start"
    /\ setup' = [pc |-> "source", i |-> 1, found |-> 0]
    /\ lookups' = CountLookup(channels.source_channels[1])
    /\ UNCHANGED <<filters, pure_vars, bot_vars, channels, rate_limit, limiter_vars,
                   channel_cache, entities_made, resolved, stats, tasks, attempts>>

\* get_entity of the source channel setup.i returns an entity or raises
setup_source_done(ok) ==
    /\ setup.pc = "source"
    /\ setup.i = Len(channels.source_channels)
    /\ IF ok
       THEN /\ channel_cache' = CacheStore(channel_cache,
                                    LookupName(channels.source_channels[setup.i]),
                                    NewEntity(LookupName(channels.source_channels[setup.i])))
            /\ entities_made' = entities_made + 1
            /\ LET dest == channels.destination_channel
                   hit == dest \in DOMAIN channel_cache'
               IN /\ setup' = [pc |-> IF hit THEN "running" ELSE "dest", i |-> 0,
                               found |-> setup.found + 1]
                  /\ resolved' = resolved \cup {channels.source_channels[setup.i]}
                                     \cup (IF hit THEN {dest} ELSE {})
                  /\ lookups' = IF hit THEN lookups ELSE CountLookup(dest)
       ELSE /\ setup_after_sources(setup.found)
            /\ UNCHANGED <<channel_cache, entities_made>>
    /\ UNCHANGED <<filters, pure_vars, bot_vars, channels, rate_limit, limiter_vars,
                   stats, tasks, attempts>>

\* get_entity of the destination returns an entity or raises
setup_dest_done(ok) ==
    /\ setup.pc = "dest"
    /\ IF ok
       THEN /\ resolve_channel_returns(channels.destination_channel)
            /\ setup' = [setup EXCEPT !.pc = "running"]
       ELSE /\ setup' = [setup EXCEPT !.pc = "failed"]
            /\ resolve_channel_raises(channels.destination_channel)
    /\ UNCHANGED <<filters, pure_vars, bot_vars, channels, rate_limit, limiter_vars,
                   stats, tasks, attempts>>

setup_handlers ==
    \/ setup_start
    \/ \E ok \in BOOLEAN : setup_source_done(ok)
    \/ \E ok \in BOOLEAN : setup_dest_done(ok)

(* ---- the clock ---- *)

\* the times at which a sleep of some task ends
Wakes ==
    {tasks[m].wake : m \in {n \in Msgs : tasks[n].pc \in {"sleep_window", "sleep_delay",
                                                            "flood_sleep"}}}

\* the step of the clock when no sleep ends first
TickStep == WindowSeconds \div 2

\* time passes: to the end of a sleep, or by TickStep up to MaxTime
tick ==
    /\ \E t \in {w \in Wakes : w > now} \cup {s \in {now + TickStep} : s <= MaxTime} :
           now' = t
    /\ UNCHANGED <<filters, pure_vars, bot_vars, channels, rate_limit, message_times, lock,
                   lock_waiters, slot_grants, resolver_vars, stats, setup, tasks, attempts>>

-----------------------------------------------------------------------------
(* SpecPure: the pure functions applied to drawn inputs.                   *)

InitPureVars ==
    /\ arg_message = [text |-> <<>>, caption |-> <<>>, media |-> FALSE]
    /\ ret_screen = NoValue
    /\ ret_forward = NoValue

InitPure ==
    /\ filters \in FilterConfigs
    /\ arg_message \in Messages
    /\ ret_screen = NoValue
    /\ ret_forward = NoValue
    /\ InitBotVars
    /\ InitEngineVars

\* message_text = event.text or event.caption or ""
\* result = self.screener.screen_message(message_text)
CallScreen ==
    /\ ret_screen = NoValue
    /\ ret_screen' = <<screen_message(filters, MessageText(arg_message))>>
    /\ UNCHANGED <<filters, arg_message, ret_forward, bot_vars, engine_vars>>

\* self.message_filter.should_forward(message)
CallShouldForward ==
    /\ ret_forward = NoValue
    /\ ret_forward' = <<should_forward(filters, arg_message)>>
    /\ UNCHANGED <<filters, arg_message, ret_screen, bot_vars, engine_vars>>

NextPure == CallScreen \/ CallShouldForward

SpecPure == InitPure /\ [][NextPure]_vars

-----------------------------------------------------------------------------
(* SpecBot: the submission bot.                                            *)

InitBot ==
    /\ filters = DefaultFilterConfig
    /\ InitPureVars
    /\ InitBotVars
    /\ InitEngineVars

NextBot == handle_submission \/ handle_button_callback \/ post_to_channel

SpecBot == InitBot /\ [][NextBot]_vars

-----------------------------------------------------------------------------
(* Spec: the forwarder.                                                    *)

Init ==
    /\ filters = EngineFilterConfig
    /\ InitPureVars
    /\ InitBotVars
    /\ channels \in ChannelConfigs
    /\ rate_limit \in RateLimitConfigs
    /\ now = 0
    /\ message_times = <<>>
    /\ lock = NoTask
    /\ lock_waiters = <<>>
    /\ channel_cache = <<>>
    /\ stats = [messages_received |-> 0, messages_forwarded |-> 0,
                messages_filtered |-> 0, errors |-> 0]
    /\ setup = [pc |-> "start", i |-> 1, found |-> 0]
    /\ tasks = [m \in Msgs |-> Task("idle", 0, NoMessage, 0)]
    /\ entities_made = 0
    /\ lookups = <<>>
    /\ resolved = {}
    /\ slot_grants = <<>>
    /\ attempts = <<>>

Next == setup_handlers \/ handle_new_message \/ forward_message \/ tick

Spec == Init /\ [][Next]_vars

\* the forwarder with one message per minute in copy mode to the plain
\* destination, the clock running, the lock handed over and every sleep that
\* has ended returning to its task
InitFair ==
    /\ Init
    /\ ~channels.forward_mode
    /\ channels.destination_channel = DstPlain
    /\ rate_limit.max_messages_per_minute = 1

SpecFair ==
    /\ InitFair
    /\ [][Next]_vars
    /\ WF_vars(tick)
    /\ \A m \in Msgs :
           /\ WF_vars(flood_sleep_ends(m))
           /\ WF_vars(lock_acquired(m))
           /\ WF_vars(window_sleep_ends(m))
           /\ WF_vars(delay_sleep_ends(m))

-----------------------------------------------------------------------------
(* The checks of screen_message, each stated on the text alone.            *)

\* the text screened in SpecPure
ScreenedText == MessageText(arg_message)

\* nothing but white space (the empty text included)
Blank(t) == \A i \in 1..Len(t) : IsSpace(t[i])

\* some built-in spam pattern occurs in t, whatever the case of the letters
HasSpam(t) ==
    LET tl == Lower(t) IN
    \E i \in 1..Len(DEFAULT_BLOCKED_PATTERNS) : Contains(tl, DEFAULT_BLOCKED_PATTERNS[i])

\* some configured exclude keyword occurs in t, whatever the case
HasExcluded(f, t) ==
    LET tl == Lower(t) IN
    \E i \in 1..Len(f.exclude_keywords) : Contains(tl, Lower(f.exclude_keywords[i]))

\* the minimum length in force: the configured one, 20 when it is 0
EffectiveMin(f) == IF f.min_message_length = 0 THEN 20 ELSE f.min_message_length

\* some required keyword (the configured ones, else the built-in list) occurs
OnTopic(f, t) ==
    LET kws == IF f.include_keywords = <<>> THEN DEFAULT_REQUIRED_KEYWORDS
               ELSE f.include_keywords
        tl == Lower(t)
    IN \E i \in 1..Len(kws) : Contains(tl, Lower(kws[i]))

\* C8 as stated, for the texts that are not blank: every text shorter than
\* the effective minimum length is rejected with reason too_short, whatever
\* other rules (spam pattern, exclude keyword, topic keyword) it fails.
C8_AsStated ==
    (ret_screen # NoValue /\ ~Blank(ScreenedText)
        /\ Len(ScreenedText) < EffectiveMin(filters))
        => (~ret_screen[1].approved /\ ret_screen[1].reason = "too_short")

\* C8 amended: a text shorter than the effective minimum length that is not
\* blank, matches no built-in spam pattern and holds no exclude keyword is
\* rejected with reason too_short, also when it holds no topic keyword.
C8_TooShort ==
    (/\ ret_screen # NoValue
     /\ Len(ScreenedText) < EffectiveMin(filters)
     /\ ~Blank(ScreenedText)
     /\ ~HasSpam(ScreenedText)
     /\ ~HasExcluded(filters, ScreenedText))
        => (/\ ~ret_screen[1].approved
            /\ ret_screen[1].reason = "too_short"
            /\ ret_screen[1].message = <<"Your message is too short", EffectiveMin(filters)>>)

\* a too-short text that is off topic as well has been screened
C8_Witness ==
    /\ ret_screen # NoValue
    /\ Len(ScreenedText) < EffectiveMin(filters)
    /\ ~Blank(ScreenedText)
    /\ ~OnTopic(filters, ScreenedText)
    /\ ret_screen[1].reason = "too_short"

\* C9: screen_message returns the outcome of the first failing check in the
\* order empty, spam pattern, exclude keyword, minimum length (20 when the
\* configured value is 0), topic keyword, and approves only when none fails.
C9_FirstFailing ==
    ret_screen # NoValue =>
        LET t == ScreenedText
            r == ret_screen[1]
            empty == Blank(t)
            spam  == ~empty /\ HasSpam(t)
            excl  == ~empty /\ ~spam /\ HasExcluded(filters, t)
            short == ~empty /\ ~spam /\ ~excl /\ Len(t) < EffectiveMin(filters)
            topic == ~empty /\ ~spam /\ ~excl /\ ~short /\ ~OnTopic(filters, t)
        IN /\ (r.reason = "empty_message") <=> empty
           /\ (r.reason = "spam_detected") <=> spam
           /\ (r.reason = "blocked_keyword") <=> excl
           /\ (r.reason = "too_short") <=> short
           /\ (r.reason = "off_topic") <=> topic
           /\ (r.reason = "approved") <=> ~(empty \/ spam \/ excl \/ short \/ topic)
           /\ r.approved <=> (r.reason = "approved")

\* a text that holds a spam pattern and is too short as well has been
\* screened, and was rejected as spam
C9_Witness ==
    /\ ret_screen # NoValue
    /\ HasSpam(ScreenedText)
    /\ Len(ScreenedText) < EffectiveMin(filters)
    /\ ret_screen[1].reason = "spam_detected"

\* C10 as stated: should_forward rejects every message that has empty text
\* and no attached media, for every rule set.
C10_RejectsEmpty ==
    (ret_forward # NoValue /\ MessageText(arg_message) = <<>> /\ ~arg_message.media)
        => ret_forward[1] = FALSE

-----------------------------------------------------------------------------
(* The submission workflow, stated on the steps of SpecBot.                *)

NothingPendingNotice == <<"No pending submission found">>
PostedNotice == <<"Your listing has been posted to the channel!">>
FailedNotice == <<"Failed to post to the channel.">>

\* this step is the handling of a button press of kind `kind`, up to the
\* first request it awaits
ButtonStep(kind) ==
    /\ last_event' # last_event
    /\ last_event'.event = kind
    /\ last_event'.answer \notin {PostedNotice, FailedNotice}

\* this step ends a confirm_post callback: post_to_channel returned
PublishEndStep ==
    /\ last_event' # last_event
    /\ last_event'.event = "confirm_post"
    /\ last_event'.answer \in {PostedNotice, FailedNotice}

\* this step is process_submission
SubmissionStep ==
    bot_stats'.submissions_received # bot_stats.submissions_received

\* text passes every check of the screener under f
Passes(f, t) ==
    /\ ~Blank(t)
    /\ ~HasSpam(t)
    /\ ~HasExcluded(f, t)
    /\ Len(t) >= EffectiveMin(f)
    /\ OnTopic(f, t)

\* the entries of the submitters other than u are the same before and after
OthersUntouched(u) ==
    \A v \in Users \ {u} :
        /\ (v \in DOMAIN pending_submissions') <=> (v \in DOMAIN pending_submissions)
        /\ v \in DOMAIN pending_submissions => pending_submissions'[v] = pending_submissions[v]

\* C4: a confirm action of a submitter with no pending entry answers with
\* the "nothing pending" notice and has no other effect: no publish is
\* started (no resolve, no dispatch), the pending store and the counters
\* are unchanged.
C4_ConfirmNothingPending ==
    [][(ButtonStep("confirm_post")
            /\ last_event'.user_id \notin DOMAIN pending_submissions)
        => (/\ last_event'.answer = NothingPendingNotice
            /\ UNCHANGED <<pending_submissions, bot_stats, publishes, bot_posts,
                           bot_floods>>)]_vars

\* a stale confirmation was answered while another submitter had an entry
\* pending and a submission had been counted
C4_Witness ==
    /\ last_event.event = "confirm_post"
    /\ last_event.answer = NothingPendingNotice
    /\ last_event.user_id \notin DOMAIN pending_submissions
    /\ DOMAIN pending_submissions # {}
    /\ bot_stats.submissions_received > 0

\* C5: a confirm action of a submitter with a pending entry removes the
\* entry as the publish starts, publishes exactly the stored text, and
\* increments approved by one exactly when the publish succeeds; a failed
\* publish leaves approved unchanged and stores no entry back.
C5_ConfirmPublishes ==
    [][/\ (ButtonStep("confirm_post")
              /\ last_event'.user_id \in DOMAIN pending_submissions)
          => LET u == last_event'.user_id IN
             /\ u \notin DOMAIN pending_submissions'
             /\ OthersUntouched(u)
             /\ publishes' = publishes
                    (+) SetToBag({Publish("get_entity", u, pending_submissions[u], 0)})
             /\ UNCHANGED <<bot_stats, bot_posts>>
       /\ PublishEndStep
          => /\ UNCHANGED pending_submissions
             /\ \E p \in BagToSet(publishes) :
                    /\ p.user_id = last_event'.user_id
                    /\ p.message_text = last_event'.text
                    /\ publishes' = publishes (-) SetToBag({p})
                    /\ IF last_event'.answer = PostedNotice
                       THEN /\ p.pc = "send_message"
                            /\ bot_posts' = Append(bot_posts, FormatPost(p.message_text))
                            /\ bot_stats' = [bot_stats EXCEPT !.submissions_approved = @ + 1]
                       ELSE UNCHANGED <<bot_posts, bot_stats>>
       /\ (bot_posts' # bot_posts \/ bot_stats'.submissions_approved # bot_stats.submissions_approved)
          => (PublishEndStep /\ last_event'.answer = PostedNotice)
      ]_vars

\* one confirmed listing was posted and another confirm failed, leaving its
\* submitter without an entry
C5_Witness ==
    /\ bot_stats.submissions_approved = 1
    /\ Len(bot_posts) = 1
    /\ last_event.event = "confirm_post"
    /\ last_event.answer = FailedNotice
    /\ last_event.user_id \notin DOMAIN pending_submissions

\* C6: a cancel or edit action leaves its submitter without a pending entry,
\* starts no publish, changes no counter and leaves the entries of the other
\* submitters as they are.
C6_CancelEdit ==
    [][(ButtonStep("cancel_post") \/ ButtonStep("edit_post"))
        => LET u == last_event'.user_id IN
           /\ u \notin DOMAIN pending_submissions'
           /\ OthersUntouched(u)
           /\ UNCHANGED <<bot_stats, publishes, bot_posts, bot_floods>>]_vars

\* a submitter has cancelled a pending listing while the other submitter's
\* entry stayed
C6_Witness ==
    /\ last_event.event = "cancel_post"
    /\ last_event.text = TextA
    /\ last_event.user_id \notin DOMAIN pending_submissions
    /\ \E v \in Users \ {last_event.user_id} : v \in DOMAIN pending_submissions

-----------------------------------------------------------------------------
(* The forwarder: rate limiter, dispatch, channel cache.                   *)

\* the times of the dispatch requests sent so far, in the order sent
AttemptTimes == [i \in 1..Len(attempts) |-> attempts[i].time]

\* the times appended to the window so far, in the order appended
GrantTimes == [i \in 1..Len(slot_grants) |-> slot_grants[i].time]

\* of the times in `times`, every one is at least WindowSeconds later than
\* the one k places before it
SpacedBy(times, k) ==
    \A i \in 1..Len(times) :
        i + k <= Len(times) => times[i + k] >= times[i] + WindowSeconds

\* C1: with max_messages_per_minute = k >= 1 and any number of sequential or
\* concurrent callers of wait_if_needed, the (i+k)-th timestamp appended to
\* the window is at least 60 seconds later than the i-th, and a caller that
\* finds k entries in the window is suspended until the oldest surviving
\* entry has left the window.
C1_WindowBound ==
    /\ SpacedBy(GrantTimes, rate_limit.max_messages_per_minute)
    /\ \A m \in Msgs :
           At(m, "sleep_window") =>
               /\ lock = m
               /\ Len(message_times) >= rate_limit.max_messages_per_minute
               /\ tasks[m].wake = message_times[1] + WindowSeconds

\* C1 witness: a caller found the window full, was suspended, and its
\* timestamp has been appended behind the k entries it found.
C1_Witness ==
    /\ Len(slot_grants) > rate_limit.max_messages_per_minute
    /\ Len(message_times) = rate_limit.max_messages_per_minute + 1
    /\ message_times[Len(message_times)] >= message_times[1] + WindowSeconds

\* C2 as stated: the dispatch requests sent to the destination, first attempts
\* and retries over all messages, number at most max_messages_per_minute in
\* any 60-second span.
C2_AsStated == SpacedBy(AttemptTimes, rate_limit.max_messages_per_minute)

\* C2 amended: every dispatch request of a message, first attempt or retry,
\* is sent after the one slot wait_if_needed granted to that message, and at
\* most max_messages_per_minute messages are granted a slot in any 60-second
\* span; the requests themselves are not bounded, a retry takes no new slot.
C2_SlotBeforeDispatch ==
    /\ \A a \in 1..Len(attempts) :
           \E g \in 1..Len(slot_grants) :
               /\ slot_grants[g].msg = attempts[a].msg
               /\ slot_grants[g].time <= attempts[a].time
    /\ \A g, h \in 1..Len(slot_grants) :
           slot_grants[g].msg = slot_grants[h].msg => g = h
    /\ \A g, h \in 1..Len(slot_grants) :
           h >= g + rate_limit.max_messages_per_minute =>
               slot_grants[h].time - slot_grants[g].time >= WindowSeconds

\* C2 witness: a message was retried after a rate-limit signal, less than 60
\* seconds after its first attempt, on its one slot.
C2_Witness ==
    \E a, b \in 1..Len(attempts) :
        /\ a < b
        /\ attempts[a].msg = attempts[b].msg
        /\ attempts[b].time < attempts[a].time + WindowSeconds
        /\ Len(slot_grants) = 1

\* C3 as stated: once resolve_channel has succeeded for an identifier string,
\* link-style ones included, the entity is cached under that string, a later
\* resolve of it sends no further get_entity request, and no cached entry is
\* ever changed or removed.
C3_CachedUnderOriginal ==
    [][/\ \A id \in resolved :
              /\ id \in DOMAIN channel_cache
              /\ id \in DOMAIN lookups => lookups'[id] = lookups[id]
       /\ \A key \in DOMAIN channel_cache :
              /\ key \in DOMAIN channel_cache'
              /\ channel_cache'[key] = channel_cache[key]]_vars


-----------------------------------------------------------------------------
(* MessageFilter.should_forward against its reference.                     *)

\* some keyword of kws occurs in text, letter case ignored
Matches(kws, text) ==
    \E i \in 1..Len(kws) : Contains(Lower(text), Lower(kws[i]))

\* the reference: rules (1) to (5) in their order
ForwardReference(f, message) ==
    LET text == MessageText(message) IN
    CASE text = <<>> /\ message.media -> f.include_media_only
      [] Len(text) < f.min_message_length -> FALSE
      [] f.include_keywords # <<>> /\ ~Matches(f.include_keywords, text) -> FALSE
      [] Matches(f.exclude_keywords, text) -> FALSE
      [] OTHER -> TRUE

\* C11: should_forward returns what the short-circuiting reference returns
\* (media without text: include_media_only; too short: reject; include
\* keywords without a match: reject; an exclude keyword matching: reject, also
\* when an include keyword matches; else accept), and the call changes
\* nothing but its result.
C11_Reference ==
    [][ret_forward' # ret_forward =>
          /\ ret_forward' = <<ForwardReference(filters, arg_message)>>
          /\ UNCHANGED <<filters, arg_message, ret_screen, bot_vars, engine_vars>>]_vars

\* C11 witness: a message long enough, with an include keyword and an exclude
\* keyword both matching, was rejected.
C11_Witness ==
    /\ ret_forward = <<FALSE>>
    /\ Len(MessageText(arg_message)) >= filters.min_message_length
    /\ filters.include_keywords # <<>>
    /\ Matches(filters.include_keywords, MessageText(arg_message))
    /\ Matches(filters.exclude_keywords, MessageText(arg_message))


-----------------------------------------------------------------------------
(* The forwarder: penalty waits, the window, errors, retries.              *)

\* task m enters handle_flood_wait in this step
PenaltyStarts(m) == tasks[m].pc # "flood_sleep" /\ tasks'[m].pc = "flood_sleep"

\* task m returns from handle_flood_wait in this step
PenaltyEnds(m) == tasks[m].pc = "flood_sleep" /\ tasks'[m].pc # "flood_sleep"

\* C12: handle_flood_wait suspends its caller for at least the signalled
\* seconds times flood_wait_multiplier (10 seconds and 1.5: at least 15), and
\* neither entering it nor returning from it adds, removes or reorders a
\* timestamp of the rate window.
C12_Penalty ==
    [][\A m \in Msgs :
          /\ PenaltyStarts(m) =>
                 /\ (tasks'[m].wake - now) * rate_limit.flood_wait_multiplier[2]
                        >= tasks'[m].seconds * rate_limit.flood_wait_multiplier[1]
                 /\ message_times' = message_times
          /\ PenaltyEnds(m) =>
                 /\ now >= tasks[m].wake
                 /\ message_times' = message_times]_vars

\* C12 witness: a task signalled to wait 10 seconds has slept 15 or more and
\* is dispatching again, with its timestamp still in the window.
C12_Witness ==
    \E m \in Msgs :
        /\ tasks[m].floods = 1
        /\ tasks[m].seconds = 10
        /\ At(m, "dispatch")
        /\ now >= tasks[m].wake
        /\ Len(attempts) >= 2
        /\ attempts[Len(attempts)].time >= attempts[1].time + 15
        /\ message_times # <<>>


\* C13 as stated: after every mutation of the window by wait_if_needed, the
\* pruning and the append, no timestamp in the window is older than 60
\* seconds at the time of that mutation.
C13_FreshAfterMutation ==
    [][message_times' # message_times =>
          \A i \in 1..Len(message_times') :
              now' - message_times'[i] <= WindowSeconds]_vars

\* times is ordered oldest-first
Ordered(times) ==
    \A i, j \in 1..Len(times) : i < j => times[i] <= times[j]

\* C14: wait_if_needed sleeps message_delay on every call, full window or
\* not, and appends the current time only after that sleep; the window stays
\* ordered oldest-first and two timestamps appended one after the other are
\* at least message_delay apart, whatever the interleaving of the callers.
C14_DelayEveryCall ==
    [][/\ \A m \in Msgs :
              tasks[m].pc # "sleep_delay" /\ tasks'[m].pc = "sleep_delay" =>
                  tasks'[m].wake = now + rate_limit.message_delay
       /\ slot_grants' # slot_grants =>
              \E m \in Msgs :
                  /\ tasks[m].pc = "sleep_delay"
                  /\ now >= tasks[m].wake
                  /\ slot_grants' = Append(slot_grants, [msg |-> m, time |-> now])
                  /\ message_times' = Append(message_times, now)
       /\ Ordered(message_times')
       /\ \A i \in 1..Len(slot_grants') - 1 :
              slot_grants'[i + 1].time >= slot_grants'[i].time + rate_limit.message_delay]_vars

\* C14 witness: two callers found the window not full, and the second
\* timestamp was appended exactly message_delay after the first.
C14_Witness ==
    /\ rate_limit.max_messages_per_minute = 2
    /\ Len(message_times) = 2
    /\ Len(slot_grants) = 2
    /\ slot_grants[2].time = slot_grants[1].time + rate_limit.message_delay


\* forward_message returns False for message m in this step
FailureStep(m) == tasks[m].ret = "none" /\ tasks'[m].ret = "False"

\* the dispatch requests sent for message m
AttemptsOf(log, m) == SelectSeq(log, LAMBDA a : a.msg = m)

\* C15: when forward_message fails for a message with a permission error or
\* any error but a rate-limit signal, the resolution of the destination
\* included, errors rises by exactly one, messages_forwarded stays, the
\* handling of the message ends without another dispatch request, and the
\* limiter, the cache and the other messages' handling are left as they were.
C15_ErrorAborts ==
    [][\A m \in Msgs :
          /\ FailureStep(m) =>
                 /\ stats' = [stats EXCEPT !.errors = @ + 1]
                 /\ tasks'[m].pc = "done"
                 /\ \A n \in Msgs \ {m} : tasks'[n] = tasks[n]
                 /\ UNCHANGED <<limiter_vars, resolver_vars, setup, attempts>>
          /\ tasks[m].pc = "done" =>
                 /\ tasks'[m] = tasks[m]
                 /\ AttemptsOf(attempts', m) = AttemptsOf(attempts, m)]_vars

\* C15 witness: the first message failed and was counted once, and the
\* message handled after it was forwarded.
C15_Witness ==
    /\ tasks[1].ret = "False"
    /\ tasks[2].ret = "True"
    /\ stats.errors = 1
    /\ stats.messages_forwarded = 1
    /\ attempts # <<>>
    /\ attempts[Len(attempts)].msg = 2


\* C16 as stated: the retries after rate-limit signals are bounded: there is
\* a ceiling such that a message that has received that many signals ends
\* with a terminal failure in place of another retry.
C16_RetryBounded ==
    \E ceiling \in 1..MaxFloods :
        \A m \in Msgs :
            tasks[m].floods >= ceiling =>
                tasks[m].pc \in {"flood_sleep", "done"} /\ tasks[m].ret # "True"

\* C17: of the dispatch requests of one message at most one succeeds, a
\* request after the first is sent only after a rate-limit signal, and
\* messages_forwarded rises by one exactly when forward_message returns True.
C17_OneSuccess ==
    [][/\ \A m \in Msgs :
              /\ Len(AttemptsOf(attempts', m)) <= tasks[m].floods + 1
              /\ tasks[m].ret = "True" =>
                     /\ tasks'[m] = tasks[m]
                     /\ AttemptsOf(attempts', m) = AttemptsOf(attempts, m)
       /\ stats'.messages_forwarded =
              stats.messages_forwarded
                  + Cardinality({m \in Msgs : tasks[m].ret = "none" /\ tasks'[m].ret = "True"})
       /\ stats'.messages_forwarded = Cardinality({m \in Msgs : tasks'[m].ret = "True"})]_vars

\* C17 witness: a message was dispatched twice, the first request answered by
\* a rate-limit signal and the second with success, and counted once.
C17_Witness ==
    /\ tasks[1].ret = "True"
    /\ tasks[1].floods = 1
    /\ Len(AttemptsOf(attempts, 1)) = 2
    /\ stats.messages_forwarded = 1
    /\ tasks[2].ret = "False"


-----------------------------------------------------------------------------
(* The submission bot's publish against the forwarder's.                   *)

\* C18 as stated, for the confirm action of the bot: a dispatch-path error
\* raised while publishing is caught inside the handler and converted into a
\* counter increment.
C18_ErrorCounted ==
    [][PublishEndStep /\ last_event'.answer = FailedNotice =>
          bot_stats' # bot_stats]_vars

\* C19 as stated: the publish of the confirm action behaves as the publish of
\* the forwarder: a post is sent only on a slot of the rate limiter, the
\* destination it is sent to is in the channel cache, and after a rate-limit
\* signal the sleep is the signalled seconds times flood_wait_multiplier.
C19_SamePublish ==
    /\ Len(bot_posts) <= Len(message_times)
    /\ \A p \in BagToSet(publishes) :
           /\ p.pc = "send_message" =>
                  channels.destination_channel \in DOMAIN channel_cache
           /\ p.pc = "flood_sleep" =>
                  \E seconds \in FloodSeconds :
                      p.sleep * rate_limit.flood_wait_multiplier[2]
                          = seconds * rate_limit.flood_wait_multiplier[1]


-----------------------------------------------------------------------------
(* The forwarder: the retry after a rate-limit signal.                     *)

\* C20: a rate-limit signal received by forward_message changes neither
\* errors nor messages_forwarded and starts the penalty sleep; while the
\* sleep lasts no request is sent for the message; when it has ended the task
\* goes on, and only to the resolution of the destination (a cache hit sends
\* the request, a miss asks get_entity), without a new slot of the limiter.
\* A forwarder stopped by a failed setup_handlers retries nothing.
C20_RetryAfterPenalty ==
    /\ [][\A m \in Msgs :
             /\ tasks'[m].floods # tasks[m].floods =>
                    /\ PenaltyStarts(m)
                    /\ tasks'[m].floods = tasks[m].floods + 1
                    /\ tasks'[m].wake = now + FloodWaitTime(tasks'[m].seconds)
                    /\ UNCHANGED <<stats, limiter_vars, attempts>>
             /\ At(m, "flood_sleep") /\ ~PenaltyEnds(m) =>
                    /\ tasks'[m] = tasks[m]
                    /\ AttemptsOf(attempts', m) = AttemptsOf(attempts, m)
             /\ PenaltyEnds(m) =>
                    /\ now >= tasks[m].wake
                    /\ tasks'[m].pc =
                           IF CacheHit(channels.destination_channel) THEN "dispatch"
                           ELSE "get_entity"
                    /\ UNCHANGED <<stats, limiter_vars>>]_vars
    /\ \A m \in Msgs :
           At(m, "flood_sleep") ~>
               (At(m, "dispatch") \/ At(m, "get_entity") \/ setup.pc = "failed")

\* C20 witness: a message is dispatched a second time, after its penalty
\* sleep, on the one slot it was granted.
C20_Witness ==
    \E m \in Msgs :
        /\ At(m, "dispatch")
        /\ tasks[m].floods = 1
        /\ Len(AttemptsOf(attempts, m)) = 2
        /\ Len(SelectSeq(slot_grants, LAMBDA g : g.msg = m)) = 1
        /\ now >= tasks[m].wake


-----------------------------------------------------------------------------
(* The forwarder: filtered messages, the lock, the counters.               *)

\* the handling of message m has started and the reference rejects it
Rejects(m) == ~At(m, "idle") /\ ~ForwardReference(filters, tasks[m].message)

\* the slots granted to message m
GrantsOf(log, m) == SelectSeq(log, LAMBDA g : g.msg = m)

\* C21: for a message the filter rejects, handle_new_message increments
\* messages_received and messages_filtered by one each and returns: the rate
\* window, the lock, the cache and the requests sent stay as they were and
\* messages_forwarded and errors do not change. A dispatch request is sent
\* for a message only if it passed the filter and its wait_if_needed returned.
C21_FilteredFrame ==
    [][\A m \in Msgs :
          /\ At(m, "idle") /\ ~At(m, "idle")' =>
                 stats' = [stats EXCEPT !.messages_received = @ + 1]
          /\ tasks'[m] # tasks[m] /\ tasks'[m].pc # "raised" /\ Rejects(m) =>
                 /\ At(m, "get_chat")
                 /\ stats' = [stats EXCEPT !.messages_filtered = @ + 1]
                 /\ tasks'[m] = [tasks[m] EXCEPT !.pc = "done"]
                 /\ UNCHANGED <<limiter_vars, resolver_vars, attempts>>
          /\ AttemptsOf(attempts', m) # AttemptsOf(attempts, m) =>
                 /\ ForwardReference(filters, tasks'[m].message)
                 /\ Len(GrantsOf(slot_grants', m)) = 1
                 /\ GrantsOf(slot_grants', m)[1].time <= AttemptsOf(attempts', m)[1].time]_vars

\* C21 witness: the first message was filtered out and left the window
\* empty; the second passed, was granted the first slot and is dispatched.
C21_Witness ==
    /\ Rejects(1)
    /\ At(1, "done")
    /\ stats.messages_filtered = 1
    /\ stats.messages_received = 2
    /\ Len(slot_grants) = 1
    /\ slot_grants[1].msg = 2
    /\ AttemptsOf(attempts, 2) # <<>>


\* the callers of wait_if_needed between its pruning and its append
InsideLimiter == {m \in Msgs : tasks[m].pc \in {"sleep_window", "sleep_delay"}}

\* C22: at most one caller of wait_if_needed is between the pruning and the
\* append, its sleeps for the window and for message_delay included, and it
\* holds the lock; the window is changed only by the pruning of a caller that
\* takes the free lock and by the append of the holder, which frees the lock,
\* so the mutations of two calls never interleave.
C22_MutualExclusion ==
    [][/\ Cardinality(InsideLimiter') <= 1
       /\ \A m \in Msgs : (m \in InsideLimiter') <=> (lock' = m)
       /\ message_times' # message_times =>
              \/ lock = NoTask /\ lock' # NoTask
              \/ /\ lock # NoTask /\ lock' = NoTask
                 /\ message_times' = Append(message_times, now)
       /\ lock # NoTask /\ lock' # NoTask => lock' = lock]_vars

\* C22 witness: one caller sleeps message_delay with the lock held while
\* the other, arrived meanwhile, waits for the lock.
C22_Witness ==
    /\ At(1, "sleep_delay")
    /\ lock = 1
    /\ now < tasks[1].wake
    /\ At(2, "lock_wait")
    /\ lock_waiters = <<2>>


-----------------------------------------------------------------------------
(* The submission bot: the pending entries and the counters.               *)

\* this step handles a button press of submitter u
ButtonStepOf(u) ==
    /\ last_event'.user_id = u
    /\ \E kind \in {"confirm_post", "cancel_post", "edit_post"} : ButtonStep(kind)

\* C23: a submitter has at most one pending entry; an entry appears or
\* changes only when a submission of that submitter passes screening, and
\* then holds its text; a rejected submission creates none; the entry is gone
\* once a confirm, cancel or edit action of the submitter has been handled,
\* and goes in no other way.
C23_PendingInvariant ==
    [][\A u \in Users :
          /\ u \in DOMAIN pending_submissions' =>
                 Passes(filters, pending_submissions'[u])
          /\ /\ u \in DOMAIN pending_submissions'
             /\ u \in DOMAIN pending_submissions => pending_submissions'[u] # pending_submissions[u]
             => /\ SubmissionStep
                /\ last_event'.user_id = u
                /\ last_event'.text = pending_submissions'[u]
          /\ SubmissionStep /\ last_event'.user_id = u /\ ~Passes(filters, last_event'.text) =>
                 pending_submissions' = pending_submissions
          /\ ButtonStepOf(u) => u \notin DOMAIN pending_submissions'
          /\ u \in DOMAIN pending_submissions /\ u \notin DOMAIN pending_submissions' =>
                 ButtonStepOf(u)]_vars

\* C23 witness: one submitter's accepted text is pending, and the rejected
\* submission of the other, handled last, created no entry.
C23_Witness ==
    /\ DOMAIN pending_submissions = {1}
    /\ bot_stats.submissions_received = 2
    /\ bot_stats.submissions_rejected = 1
    /\ last_event.event = "new_message"
    /\ last_event.user_id = 2
    /\ ~Passes(filters, last_event.text)


\* the submissions that passed screening so far
Accepted == bot_stats.submissions_received - bot_stats.submissions_rejected

\* C24: whatever the interleaving of the confirm, cancel and edit actions of
\* a submitter, a second confirm during a suspended publish included, each
\* stored entry is consumed by at most one action: the entries pending, the
\* publishes under way and the posts sent together never outnumber the
\* accepted submissions, every post sent was counted once in
\* submissions_approved, and a confirm pressed during the publish finds
\* nothing pending unless a later submission was received.
C24_ConsumedOnce ==
    /\ Cardinality(DOMAIN pending_submissions) + BagCardinality(publishes) + Len(bot_posts)
           <= Accepted
    /\ bot_stats.submissions_approved = Len(bot_posts)
    /\ \A p \in BagToSet(publishes) :
           p.user_id \in DOMAIN pending_submissions =>
               bot_stats.submissions_received >= 2

\* C24 witness: the one accepted submission was confirmed, and the confirm
\* button pressed again while its publish is suspended found nothing pending.
C24_Witness ==
    /\ Accepted = 1
    /\ BagCardinality(publishes) = 1
    /\ pending_submissions = <<>>
    /\ last_event.event = "confirm_post"
    /\ last_event.answer = NothingPendingNotice
    /\ \E p \in BagToSet(publishes) : p.user_id = last_event.user_id

\* C27: submissions_approved + submissions_rejected never exceeds
\* submissions_received, and submissions_approved never exceeds the number of
\* submissions that passed screening.
C27_BotAccounting ==
    /\ bot_stats.submissions_approved + bot_stats.submissions_rejected
           <= bot_stats.submissions_received
    /\ bot_stats.submissions_approved <= Accepted
    /\ bot_stats.submissions_rejected >= 0
    /\ bot_stats.submissions_approved >= 0

\* C27 witness: of two submissions one was rejected and the other accepted,
\* confirmed and posted.
C27_Witness ==
    /\ bot_stats = [submissions_received |-> 2, submissions_approved |-> 1,
                    submissions_rejected |-> 1]
    /\ Len(bot_posts) = 1


-----------------------------------------------------------------------------
(* resolve_channel when get_entity fails.                                  *)

\* the get_entity request of task m ends in this step with an exception, the
\* rate-limit signal included: no dispatch request follows it
LookupFails(m) ==
    /\ At(m, "get_entity")
    /\ tasks'[m].pc # "get_entity"
    /\ attempts' = attempts

\* the resolve of the destination by setup_handlers fails in this step
SetupLookupFails == setup.pc = "dest" /\ setup'.pc = "failed"

\* a resolve of the destination starts in this step and misses the cache
FreshLookup ==
    /\ channels.destination_channel \in DOMAIN lookups
    /\ lookups' = [lookups EXCEPT ![channels.destination_channel] = @ + 1]

\* C25: when get_entity fails inside resolve_channel the error reaches the
\* caller (forward_message counts it or starts the penalty sleep,
\* setup_handlers fails), the cache is left as it was, and a resolve of the
\* same identifier that starts while the cache has no entry for it asks
\* get_entity again.
C25_FailedLookup ==
    [][/\ \A m \in Msgs :
              /\ LookupFails(m) =>
                     /\ UNCHANGED <<channel_cache, entities_made, resolved>>
                     /\ \/ tasks'[m].ret = "False" /\ stats'.errors = stats.errors + 1
                        \/ PenaltyStarts(m)
              /\ /\ tasks'[m].pc \in {"get_entity", "dispatch"}
                 /\ tasks[m].pc \in {"sleep_delay", "flood_sleep"}
                 /\ ~CacheHit(channels.destination_channel)
                 => tasks'[m].pc = "get_entity" /\ FreshLookup
       /\ SetupLookupFails => UNCHANGED <<channel_cache, entities_made, resolved>>]_vars

\* C25 witness: the lookup of the destination failed for the first message
\* and left no cache entry; the second message asks get_entity again.
C25_Witness ==
    /\ channels.destination_channel = DstPlain
    /\ tasks[1].ret = "False"
    /\ AttemptsOf(attempts, 1) = <<>>
    /\ DstPlain \notin DOMAIN channel_cache
    /\ At(2, "get_entity")
    /\ lookups[DstPlain] >= 2


-----------------------------------------------------------------------------
(* The forwarder's counters.                                               *)

\* the messages whose handling has started / has finished
Begun == {m \in Msgs : ~At(m, "idle")}
Finished == {m \in Msgs : At(m, "done") \/ At(m, "raised")}

\* C26 as stated: messages_received counts the messages whose handling has started and
\* messages_filtered + messages_forwarded + errors those whose handling has
\* finished, so their difference is the number of messages being handled;
\* a finished message was counted in exactly one of the three: forwarded if
\* forward_message returned True, errors if it returned False, filtered if
\* it was never called, retries after rate-limit signals counting nothing.
C26_EngineAccounting ==
    /\ stats.messages_received = Cardinality(Begun)
    /\ stats.messages_received
           >= stats.messages_filtered + stats.messages_forwarded + stats.errors
    /\ stats.messages_received
           - (stats.messages_filtered + stats.messages_forwarded + stats.errors)
           = Cardinality(Begun \ Finished)
    /\ stats.messages_forwarded = Cardinality({m \in Finished : tasks[m].ret = "True"})
    /\ stats.errors = Cardinality({m \in Finished : tasks[m].ret = "False"})
    /\ stats.messages_filtered = Cardinality({m \in Finished : tasks[m].ret = "none"})
    /\ \A m \in Msgs : tasks[m].ret # "none" => m \in Finished


-----------------------------------------------------------------------------
(* wait_if_needed returns.                                                 *)

\* task m has called wait_if_needed and the call has not returned
InWait(m) == tasks[m].pc \in {"lock_wait", "sleep_window", "sleep_delay"}

\* C28: with max_messages_per_minute >= 1, time that advances and the FIFO
\* lock, every call of wait_if_needed returns, whatever the number of callers
\* at the lock, and has then appended exactly one timestamp to the window; no
\* caller appends more than one. A forwarder stopped by a failed
\* setup_handlers wakes nobody.
C28_LimiterReturns ==
    /\ [](\A m \in Msgs :
              /\ Len(GrantsOf(slot_grants, m)) <= 1
              /\ InWait(m) => GrantsOf(slot_grants, m) = <<>>
              /\ tasks[m].pc \in {"get_entity", "dispatch", "flood_sleep"} =>
                     Len(GrantsOf(slot_grants, m)) = 1)
    /\ \A m \in Msgs :
           InWait(m) ~> (Len(GrantsOf(slot_grants, m)) = 1 \/ setup.pc = "failed")

\* C28 witness: the second caller slept for the window and for
\* message_delay and has returned, its one timestamp appended 90 seconds or
\* more after the first; the lock is free and nobody waits.
C28_Witness ==
    /\ Len(slot_grants) = 2
    /\ slot_grants[2].time >= slot_grants[1].time + WindowSeconds + rate_limit.message_delay
    /\ Len(message_times) = 2
    /\ lock = NoTask
    /\ lock_waiters = <<>>
    /\ \A m \in Msgs : ~InWait(m)

====
